---- MODULE Spec2Model ----
(***************************************************************************)
(* The retrieval-augmented generation pipeline of the chatbot backend:     *)
(* RAGModel (app/services/rag_model.py) with its chunk list, stored        *)
(* embeddings and FAISS index, the retrieval and context assembly          *)
(* functions, and the streaming generator with its worker thread.          *)
(*                                                                         *)
(* A text is a sequence of one-character strings; " " is the only          *)
(* whitespace character.  A vector is a function 1..dim -> {0,1}.  An      *)
(* error message is a sequence of string pieces (its concatenation is the  *)
(* Python string).  The monitoring side channel (app/monitoring) is left   *)
(* out: it holds no state the pipeline reads.                              *)
(***************************************************************************)
EXTENDS Integers, Sequences, FiniteSets, TLC

\* ------------------------------------------------------------------ bounds
MaxTextLen == 3    \* characters of a document or a query
MaxDocs == 2       \* documents passed to one update_context call
MaxChunks == 2     \* chunks the chunk list may grow to
MaxDim == 2        \* embedding dimension of the backend
MaxFrags == 3      \* fragments one generation worker emits
MaxWindow == 2     \* results handed to _select_context_window
MaxK == 3          \* the largest k passed to _get_relevant_chunks
MaxDist == 1       \* the largest distance of a result handed to _select_context_window
MaxTokens == 3     \* the largest max_tokens passed to _select_context_window
MaxChunkTextLen == 6   \* characters of a text passed to _chunk_text directly
MaxChunkSize == 3      \* the largest CHUNK_SIZE and CHUNK_OVERLAP of a deployment
MaxHistory == 4        \* turns of a chat history passed to _format_prompt
MaxMessageLen == 1     \* characters of a message sent to the ChatService
MaxTurns == 2          \* turns a chat session records
MaxClock == 3          \* hours the clock of the storage runs

VARIABLES
    config,         \* RAGModel.config: Config.MODEL_CONFIG of this deployment
    timeDefined,    \* whether the global name `time` resolves in rag_model.py
    dim,            \* get_sentence_embedding_dimension() of the backend
    initialized,    \* RAGModel._initialized
    documents,      \* RAGModel._documents: the chunk list
    embeddings,     \* RAGModel._embeddings: [none, rows]
    index,          \* the vectors held by RAGModel._index (ntotal = Len)
    ret,            \* the last completed synchronous call and its outcome
    allNormal,      \* every update_context call so far returned normally
    gen,            \* the generator object of process_query / _generate_response_stream
    worker,         \* the generation thread: idle, running, done, crashed
    emitted,        \* the fragments the worker has put on the streamer so far
    queue,          \* TextIteratorStreamer.text_queue
    win,            \* inputs and result of a direct _select_context_window call
    chunked,        \* input and result of a direct _chunk_text call
    prompted,       \* inputs and result of a direct _format_prompt call
    instance,       \* whether the caller holds a RAGModel: none, held, raised
    self_chat_history, \* ChatService._chat_history: the turns recorded so far
    storage,        \* the StorageManager, the upload folder and the clock
    upd,            \* an update_context call that runs beside the retrieval
    upload          \* the upload_pdf request under way and its response

vars == <<config, timeDefined, dim, initialized, documents, embeddings, index, ret,
          allNormal, gen, worker, emitted, queue, win, chunked, prompted,
          instance, self_chat_history, storage, upd, upload>>

\* -------------------------------------------------------------------- text
Chars == {"a", " "}

Min(a, b) == IF a < b THEN a ELSE b

Texts == UNION {[1..n -> Chars] : n \in 0..MaxTextLen}

\* str.split(): the maximal runs of non-whitespace characters, in order.
RECURSIVE SplitFrom(_, _, _)
SplitFrom(text, i, cur) ==
    IF i > Len(text)
    THEN IF cur = <<>> THEN <<>> ELSE <<cur>>
    ELSE IF text[i] = " "
         THEN IF cur = <<>>
              THEN SplitFrom(text, i + 1, <<>>)
              ELSE <<cur>> \o SplitFrom(text, i + 1, <<>>)
         ELSE SplitFrom(text, i + 1, Append(cur, text[i]))

Split(text) == SplitFrom(text, 1, <<>>)

\* ' '.join(words)
RECURSIVE Join(_)
Join(words) ==
    IF words = <<>> THEN <<>>
    ELSE IF Len(words) = 1 THEN words[1]
    ELSE words[1] \o <<" ">> \o Join(Tail(words))

WordCount(text) == Len(Split(text))

\* str.strip(): leading and trailing whitespace removed.
RECURSIVE LStrip(_)
LStrip(text) ==
    IF text = <<>> THEN <<>>
    ELSE IF text[1] = " " THEN LStrip(Tail(text)) ELSE text

RECURSIVE RStrip(_)
RStrip(text) ==
    IF text = <<>> THEN <<>>
    ELSE IF text[Len(text)] = " " THEN RStrip(SubSeq(text, 1, Len(text) - 1)) ELSE text

Strip(text) == RStrip(LStrip(text))

\* ------------------------------------------------------------------ errors
\* str(e): APIError.__init__ calls super().__init__() without the message,
\* so the string of a RAGModelError is empty; other exceptions print their
\* message.
NoError == [type |-> "none", message |-> <<>>]
Error(t, m) == [type |-> t, message |-> m]
Str(e) == IF e.type = "RAGModelError" THEN <<>> ELSE e.message

NameErrorTime == Error("NameError", <<"name 'time' is not defined">>)

\* What a collaborator raises when it fails: the embedding backend, the
\* index, the set-up of the generation.
EncodeFailed == Error("Exception", <<"encode failed">>)
AddFailed == Error("RuntimeError", <<"add failed">>)
SetupFailed == Error("Exception", <<"set-up failed">>)
RecordFailed == Error("Exception", <<"record failed">>)
AmbiguousTruth ==
    Error("ValueError", <<"The truth value of an array with more than one element is ambiguous">>)

\* ----------------------------------------------------------- configuration
\* Config.MODEL_CONFIG: every setting is read from the environment, so a
\* deployment fixes one record of them.  top_k keeps its default; the word
\* counts are small ones.  Nothing checks CHUNK_OVERLAP against CHUNK_SIZE:
\* the second and third deployments have a zero and a negative step.
Configs ==
    {[chunk_size |-> 2, chunk_overlap |-> 1, top_k |-> 3, max_context_tokens |-> 4],
     [chunk_size |-> 1, chunk_overlap |-> 1, top_k |-> 3, max_context_tokens |-> 4],
     [chunk_size |-> 1, chunk_overlap |-> 2, top_k |-> 3, max_context_tokens |-> 4]}

\* ---------------------------------------------------------------- chunking
\* The windows of _chunk_text from the zero-based word position i on.
RECURSIVE ChunksFrom(_, _, _, _)
ChunksFrom(words, i, size, step) ==
    IF i >= Len(words) THEN <<>>
    ELSE <<Join(SubSeq(words, i + 1, Min(i + size, Len(words))))>>
         \o ChunksFrom(words, i + step, size, step)

\* A slip that advances the window by one word more than the step.
chunk_text_wide_step(text, cfg) ==
    [error |-> NoError,
     chunks |-> ChunksFrom(Split(text), 0, cfg.chunk_size,
                           cfg.chunk_size - cfg.chunk_overlap + 1)]

\* RAGModel._chunk_text: range(0, len(words), chunk_size - chunk_overlap)
\* raises ValueError on a zero step and is empty on a negative one.
chunk_text(text, cfg) ==
    LET words == Split(text)
        step == cfg.chunk_size - cfg.chunk_overlap
    IN  IF step = 0
        THEN [error |-> Error("ValueError", <<"range() arg 3 must not be zero">>),
              chunks |-> <<>>]
        ELSE IF step < 0
        THEN [error |-> NoError, chunks |-> <<>>]
        ELSE [error |-> NoError, chunks |-> ChunksFrom(words, 0, cfg.chunk_size, step)]

\* The loop of update_context over the documents: all_chunks, or the error
\* of the first document whose chunking raises.
RECURSIVE AllChunks(_, _)
AllChunks(docs, cfg) ==
    IF docs = <<>> THEN [error |-> NoError, chunks |-> <<>>]
    ELSE LET head == chunk_text(docs[1], cfg)
             rest == AllChunks(Tail(docs), cfg)
         IN  IF head.error # NoError THEN head
             ELSE IF rest.error # NoError THEN rest
             ELSE [error |-> NoError, chunks |-> head.chunks \o rest.chunks]

\* ----------------------------------------------------------------- vectors
Vecs(d) == [1..d -> {0, 1}]

RECURSIVE SqDiff(_, _, _)
SqDiff(u, v, i) ==
    IF i = 0 THEN 0 ELSE (u[i] - v[i]) * (u[i] - v[i]) + SqDiff(u, v, i - 1)

\* The squared Euclidean distance of IndexFlatL2.
L2(u, v) == SqDiff(u, v, Len(u))

NoEmbeddings == [none |-> TRUE, rows |-> <<>>]

DocLists == UNION {[1..n -> Texts] : n \in 0..MaxDocs}

\* --------------------------------------------------- the last call, as seen
\* op, the exception it raised (NoError when it returned), the value it
\* returned, what the index search reported, the k it was given and, for
\* update_context, the documents it was given.
Ret(op, error, pairs, found, given, k) ==
    [op |-> op, error |-> error, pairs |-> pairs, found |-> found,
     given |-> given, k |-> k, docs |-> <<>>]

NoRet == Ret("none", NoError, <<>>, <<>>, FALSE, 0)

\* No generator object has been created.
NoGen == [pc |-> "none", via |-> "none", query |-> <<>>, out |-> <<>>,
          error |-> NoError, cause |-> NoError, context |-> <<>>]

\* No direct _select_context_window call has been made.
NoWin == [called |-> FALSE, results |-> <<>>, max_tokens |-> [given |-> FALSE, n |-> 0],
          context |-> <<>>]

\* No direct _chunk_text call has been made.
NoChunked == [called |-> FALSE, text |-> <<>>, error |-> NoError, chunks |-> <<>>]

\* No direct _format_prompt call has been made.
NoPrompted == [called |-> FALSE, query |-> "", context_window |-> "",
               chat_history |-> [none |-> TRUE, turns |-> <<>>], prompt |-> <<>>]

\* ------------------------------------------------------------ construction
\* The backend construction steps of _initialize_model, in order.
InitSteps == <<"SentenceTransformer", "IndexFlatL2", "AutoTokenizer", "AutoModelForCausalLM">>

InitOutcomes == {"ok"} \cup {InitSteps[i] : i \in 1..Len(InitSteps)}

\* except Exception as e: raise RAGModelError(f"Error initializing RAG model: {str(e)}")
InitializeError(step) ==
    Error("RAGModelError", <<"Error initializing RAG model: ">>
                           \o Str(Error("Exception", <<step, " failed">>)))

\* A slip that swallows the failure of a construction step.
initialize_model_swallowing(outcome) ==
    [error |-> NoError, initialized |-> outcome = "ok"]

\* RAGModel._initialize_model: _initialized becomes True only behind the
\* last step; the step that fails (outcome) makes it raise.
initialize_model(outcome) ==
    IF outcome = "ok" THEN [error |-> NoError, initialized |-> TRUE]
    ELSE [error |-> InitializeError(outcome), initialized |-> FALSE]

\* RAGModel(): __init__ sets the fields and calls _initialize_model; when
\* that raises, so does the constructor call and the caller gets no object.
Construct ==
    /\ instance # "held"
    /\ \E outcome \in InitOutcomes :
         /\ initialized' = initialize_model(outcome).initialized
         /\ instance' = IF initialize_model(outcome).error = NoError THEN "held"
                         ELSE "raised"
    /\ documents' = <<>>
    /\ embeddings' = NoEmbeddings
    /\ index' = <<>>
    /\ UNCHANGED <<config, timeDefined, dim, ret, allNormal, gen, worker, emitted,
                   queue, win, chunked, prompted, self_chat_history,
                   storage, upd, upload>>

\* ----------------------------------------------------------- update_context
\* except Exception as e: raise RAGModelError(f"Error updating context: {str(e)}")
UpdateError(e) == Error("RAGModelError", <<"Error updating context: ">> \o Str(e))

\* A slip that assigns the new chunks in both branches.
extended_documents_assigned(all_chunks) == all_chunks

\* A slip that puts the new chunks in front of the chunk list.
extended_documents_prepended(all_chunks) == all_chunks \o documents

\* The chunk list after the branch on self._embeddings is None: the new
\* chunks are assigned the first time and appended afterwards.
extended_documents(all_chunks) ==
    IF embeddings.none THEN all_chunks ELSE documents \o all_chunks

\* RAGModel.update_context(docs).  The embedding backend either raises or
\* returns one row per chunk (rows); IndexFlatL2.add either raises, adding
\* nothing, or appends the rows.  start_time = time.time() stands before
\* the try.
update_context(docs, backend, rows) ==
    LET ac == AllChunks(docs, config)
        done(e) == ret' = [Ret("update_context", e, <<>>, <<>>, FALSE, 0)
                                 EXCEPT !.docs = docs]
                   /\ allNormal' = (allNormal /\ e = NoError)
        same == UNCHANGED <<documents, embeddings, index>>
    IN  IF ~timeDefined
        THEN done(NameErrorTime) /\ same
        ELSE IF ~initialized
        THEN done(UpdateError(Error("RAGModelError", <<"RAG model not initialized">>)))
             /\ same
        ELSE IF ac.error # NoError
        THEN done(UpdateError(ac.error)) /\ same
        ELSE IF ac.chunks = <<>>
        THEN done(NoError) /\ same
        ELSE IF backend = "encode raises"
        THEN done(UpdateError(EncodeFailed)) /\ same
        ELSE /\ embeddings' = [none |-> FALSE, rows |-> embeddings.rows \o rows]
             /\ documents' = extended_documents(ac.chunks)
             /\ IF backend = "add raises"
                THEN /\ index' = index
                     /\ done(UpdateError(AddFailed))
                ELSE /\ index' = index \o rows
                     /\ done(NoError)

\* The caller holds a RAGModel, makes one call at a time and has let go of
\* the previous call's result: update_context and the retrieval are
\* serialized with the generators (no lock guards the chunk list or the
\* index).
Idle == instance = "held" /\ ret.op = "none" /\ gen.pc = "none"

Backends == {"ok", "encode raises", "add raises"}

UpdateContext ==
    /\ Idle
    /\ \E docs \in DocLists :
         LET n == Len(AllChunks(docs, config).chunks)
         IN  /\ Len(documents) + n <= MaxChunks
             /\ \E backend \in Backends :
                  \E rows \in IF backend = "encode raises" THEN {<<>>}
                              ELSE [1..n -> Vecs(dim)] :
                    update_context(docs, backend, rows)
    /\ UNCHANGED <<config, timeDefined, dim, initialized, gen, worker, emitted, queue,
                   win, chunked, prompted, instance, self_chat_history,
                   storage, upd, upload>>

\* ---------------------------------------------------------------- retrieval
\* bool(self._embeddings): None is false; a numpy array of one element has
\* the truth of that element; one of more elements raises ValueError.
Truth(emb) ==
    IF emb.none THEN "false"
    ELSE IF Len(emb.rows) * Len(emb.rows[1]) = 1
    THEN IF emb.rows[1][1] = 0 THEN "false" ELSE "true"
    ELSE "raise"

\* if not self._embeddings or len(self._documents) == 0
EmptyCheck(emb, docs) ==
    CASE Truth(emb) = "raise" -> "raise"
      [] Truth(emb) = "false" -> "empty"
      [] OTHER -> IF Len(docs) = 0 THEN "empty" ELSE "present"

\* The distance IndexFlatL2.search reports beside the label -1 of a missing
\* neighbour (the largest float): above every distance of two vectors.
FLT_MAX == MaxDim + 1

Hit(label, dist) == [idx |-> label, dist |-> dist]

\* The orders in which the m nearest of the vectors ix may be reported:
\* m distinct positions, by ascending distance to q, none farther than a
\* position left out (the order of equal distances is the library's).
Nearest(ix, q, m) ==
    {s \in [1..m -> 1..Len(ix)] :
        /\ \A i, j \in 1..m : i < j => s[i] # s[j] /\ L2(ix[s[i]], q) <= L2(ix[s[j]], q)
        /\ \A j \in 1..Len(ix) :
             (\A i \in 1..m : s[i] # j) => \A i \in 1..m : L2(ix[s[i]], q) <= L2(ix[j], q)}

\* IndexFlatL2.search(q, k): k (label, distance) entries, labels zero-based,
\* padded with (-1, FLT_MAX) when the index holds fewer than k vectors.
search(ix, q, k) ==
    LET m == Min(k, Len(ix))
    IN  {[j \in 1..k |-> IF j <= m THEN Hit(s[j] - 1, L2(ix[s[j]], q))
                         ELSE Hit(-1, FLT_MAX)] : s \in Nearest(ix, q, m)}

\* list[i] of Python: a negative i counts from the end.
PyIndex(list, i) == IF i >= 0 THEN list[i + 1] ELSE list[Len(list) + i + 1]

\* The loop over zip(indices[0], distances[0]): if idx < len(self._documents).
RECURSIVE Collect(_, _)
Collect(found, docs) ==
    IF found = <<>> THEN <<>>
    ELSE LET h == found[1]
         IN  (IF h.idx < Len(docs)
              THEN <<[chunk |-> PyIndex(docs, h.idx), dist |-> h.dist]>>
              ELSE <<>>) \o Collect(Tail(found), docs)

\* k = top_k or self.config['top_k']
EffectiveK(karg) == IF karg.given /\ karg.k # 0 THEN karg.k ELSE config.top_k

KArgs == {[given |-> FALSE, k |-> 0]} \cup {[given |-> TRUE, k |-> n] : n \in 0..MaxK}

\* RAGModel._get_relevant_chunks(query, top_k): the error it raises and the
\* list it returns, for the outcome of the query embedding (it raises, or
\* yields a vector that the index answers with `found`).
get_relevant_chunks(encode_raises, found) ==
    CASE EmptyCheck(embeddings, documents) = "raise" ->
            [error |-> AmbiguousTruth, pairs |-> <<>>, found |-> <<>>]
      [] EmptyCheck(embeddings, documents) = "empty" ->
            [error |-> NoError, pairs |-> <<>>, found |-> <<>>]
      [] OTHER ->
            IF encode_raises
            THEN [error |-> EncodeFailed, pairs |-> <<>>, found |-> <<>>]
            ELSE [error |-> NoError, pairs |-> Collect(found, documents), found |-> found]

GetRelevantChunks ==
    /\ Idle
    /\ \E karg \in KArgs, encode_raises \in BOOLEAN, q \in Vecs(dim) :
         \E found \in search(index, q, EffectiveK(karg)) :
           LET r == get_relevant_chunks(encode_raises, found)
           IN  ret' = Ret("get_relevant_chunks", r.error, r.pairs, r.found,
                          karg.given, karg.k)
    /\ UNCHANGED <<config, timeDefined, dim, initialized, documents, embeddings,
                   index, allNormal, gen, worker, emitted, queue, win, chunked, prompted,
                   instance, self_chat_history, storage, upd, upload>>

\* ------------------------------------------------------- context assembly
\* A slip that puts a result before the earlier results of equal distance.
RECURSIVE InsertBeforeEqual(_, _)
InsertBeforeEqual(p, sorted) ==
    IF sorted = <<>> THEN <<p>>
    ELSE IF sorted[Len(sorted)].dist < p.dist THEN Append(sorted, p)
    ELSE Append(InsertBeforeEqual(p, SubSeq(sorted, 1, Len(sorted) - 1)),
                sorted[Len(sorted)])

\* sorted(relevant_chunks, key=lambda x: x[1]): stable, ascending distance.
RECURSIVE InsertByDist(_, _)
InsertByDist(p, sorted) ==
    IF sorted = <<>> THEN <<p>>
    ELSE IF sorted[Len(sorted)].dist <= p.dist THEN Append(sorted, p)
    ELSE Append(InsertByDist(p, SubSeq(sorted, 1, Len(sorted) - 1)), sorted[Len(sorted)])

RECURSIVE SortByDist(_)
SortByDist(pairs) ==
    IF pairs = <<>> THEN <<>>
    ELSE InsertByDist(pairs[Len(pairs)], SortByDist(SubSeq(pairs, 1, Len(pairs) - 1)))

\* The packing loop: a chunk costs its word count; the first chunk that
\* would exceed the budget ends the loop.
RECURSIVE Pack(_, _, _)
Pack(sorted, current_tokens, max_tokens) ==
    IF sorted = <<>> THEN <<>>
    ELSE LET chunk_tokens == WordCount(sorted[1].chunk)
         IN  IF current_tokens + chunk_tokens > max_tokens THEN <<>>
             ELSE <<sorted[1].chunk>>
                  \o Pack(Tail(sorted), current_tokens + chunk_tokens, max_tokens)

\* max_tokens = max_tokens or self.config.get('max_context_tokens', 2048)
EffectiveMax(marg) == IF marg.given /\ marg.n # 0 THEN marg.n ELSE config.max_context_tokens

\* RAGModel._select_context_window(relevant_chunks, max_tokens)
select_context_window(relevant_chunks, marg) ==
    Join(Pack(SortByDist(relevant_chunks), 0, EffectiveMax(marg)))

NotGiven == [given |-> FALSE, n |-> 0]

\* ------------------------------------------------------------------ prompt
\* _format_prompt only interpolates its strings, so here a string is an
\* atom and the prompt is the sequence of the pieces of the f-string (its
\* concatenation is the Python string).
Preamble ==
    "You are a helpful AI assistant. Use the following context to answer the question. \nIf you cannot find the answer in the context, say so.\n\nContext:\n"

HistoryHeader == "\n\nChat History:\n"

\* A slip that takes the first three interactions.
FirstThree(turns) == SubSeq(turns, 1, Min(3, Len(turns)))

\* chat_history[-3:]
LastThree(turns) ==
    SubSeq(turns, IF Len(turns) > 3 THEN Len(turns) - 2 ELSE 1, Len(turns))

\* history_str += f"Human: {interaction['user']}\nAssistant: {interaction['bot']}\n"
RECURSIVE HistoryStr(_)
HistoryStr(turns) ==
    IF turns = <<>> THEN <<>>
    ELSE <<"Human: ", turns[1].user, "\nAssistant: ", turns[1].bot, "\n">>
         \o HistoryStr(Tail(turns))

\* RAGModel._format_prompt(query, context_window, chat_history): `if
\* chat_history` is false for None and for the empty list.
format_prompt(query, context_window, chat_history) ==
    <<Preamble, context_window, HistoryHeader>>
    \o (IF chat_history.none \/ chat_history.turns = <<>> THEN <<>>
        ELSE HistoryStr(LastThree(chat_history.turns)))
    \o <<"\nHuman: ", query, "\nAssistant: ">>

\* --------------------------------------------------------------- generation
\* What the streamer's queue holds: a text fragment, or the stop signal that
\* TextIteratorStreamer.end() puts.
Fragments == {"x", "y"}
Item(text) == [stop |-> FALSE, text |-> text]
StopSignal == [stop |-> TRUE, text |-> ""]

\* except Exception as e: raise RAGModelError(f"Error generating response stream: {str(e)}")
StreamSetupError ==
    Error("RAGModelError", <<"Error generating response stream: ">> \o Str(SetupFailed))

\* RAGModel._generate_response_stream up to the start of the worker thread:
\* the error its first step raises, or NoError when the thread was started.
\* start_time = time.time() stands before the try; a failure of the set-up
\* inside the try (streamer, tokenizer, device, thread) is wrapped.
generate_response_stream(setup_raises) ==
    IF ~timeDefined THEN NameErrorTime
    ELSE IF setup_raises
    THEN StreamSetupError
    ELSE NoError

\* except RAGModelError: raise / except Exception as e: raise RAGModelError(...)
ProcessError(e) ==
    IF e.type = "RAGModelError" THEN e
    ELSE Error("RAGModelError", <<"Error processing query: ">> \o Str(e))

\* A slip that tests the query without trimming it.
validation_untrimmed(query) ==
    IF ~initialized THEN Error("RAGModelError", <<"RAG model not initialized">>)
    ELSE IF query = <<>> THEN Error("RAGModelError", <<"Empty query provided">>)
    ELSE IF EmptyCheck(embeddings, documents) = "raise" THEN AmbiguousTruth
    ELSE IF EmptyCheck(embeddings, documents) = "empty"
    THEN Error("RAGModelError", <<"No context documents available">>)
    ELSE NoError

\* A slip that leaves the no-context test to the retrieval.
validation_no_context_test(query) ==
    IF ~initialized THEN Error("RAGModelError", <<"RAG model not initialized">>)
    ELSE IF Strip(query) = <<>> THEN Error("RAGModelError", <<"Empty query provided">>)
    ELSE IF EmptyCheck(embeddings, documents) = "raise" THEN AmbiguousTruth
    ELSE NoError

\* The three tests at the head of process_query: the error the first
\* failing one raises, NoError when all pass.
validation(query) ==
    IF ~initialized THEN Error("RAGModelError", <<"RAG model not initialized">>)
    ELSE IF Strip(query) = <<>> THEN Error("RAGModelError", <<"Empty query provided">>)
    ELSE IF EmptyCheck(embeddings, documents) = "raise" THEN AmbiguousTruth
    ELSE IF EmptyCheck(embeddings, documents) = "empty"
    THEN Error("RAGModelError", <<"No context documents available">>)
    ELSE NoError

\* RAGModel.process_query from the first step of its generator to the start
\* of the worker thread: the error raised (NoError when the stream began)
\* and the context window assembled; cause is the exception the handlers
\* at the end of the body caught.
process_query(query, encode_raises, found, setup_raises) ==
    LET fail(e) == [error |-> ProcessError(e), cause |-> e, context |-> <<>>]
        r == get_relevant_chunks(encode_raises, found)
        context_window == select_context_window(r.pairs, NotGiven)
    IN  IF validation(query) # NoError
        THEN fail(validation(query))
        ELSE IF r.error # NoError
        THEN fail(r.error)
        ELSE IF r.pairs = <<>>
        THEN fail(Error("RAGModelError", <<"No relevant context found for the query">>))
        ELSE IF generate_response_stream(setup_raises) # NoError
        THEN [error |-> ProcessError(generate_response_stream(setup_raises)),
              cause |-> generate_response_stream(setup_raises),
              context |-> context_window]
        ELSE [error |-> NoError, cause |-> NoError, context |-> context_window]

\* ChatService.generate_response:
\* except Exception as e: raise RAGModelError(f"Error generating response: {str(e)}")
ChatError(e) == Error("RAGModelError", <<"Error generating response: ">> \o Str(e))

\* The first step of a generator's body, by the function it belongs to: the
\* error it raises (NoError when the stream began), the exception behind
\* that error and the context window.
first_step(via, query, encode_raises, found, setup_raises) ==
    LET direct == generate_response_stream(setup_raises)
        r == process_query(query, encode_raises, found, setup_raises)
    IN  IF via = "direct"
        THEN [error |-> direct, cause |-> direct, context |-> <<>>]
        ELSE IF via = "process_query"
        THEN r
        ELSE [error |-> IF r.error = NoError THEN NoError ELSE ChatError(r.error),
              cause |-> r.error, context |-> r.context]

\* _generate_response_stream behind its loop: recording the statistics of
\* the generation stands inside the try, so a failure there is wrapped.
StreamRecordError ==
    Error("RAGModelError", <<"Error generating response stream: ">> \o Str(RecordFailed))

\* The step that takes the stop signal, by the function the generator
\* belongs to: the error it raises (NoError when the generator ends) and
\* the exception behind that error.
last_step(via, record_raises) ==
    IF ~record_raises
    THEN [error |-> NoError, cause |-> NoError]
    ELSE IF via = "direct"
    THEN [error |-> StreamRecordError, cause |-> RecordFailed]
    ELSE IF via = "process_query"
    THEN [error |-> ProcessError(StreamRecordError), cause |-> StreamRecordError]
    ELSE [error |-> ChatError(ProcessError(StreamRecordError)),
          cause |-> ProcessError(StreamRecordError)]

\* A slip that keeps only the last fragment as the bot's side of the turn.
recorded_turn_last_fragment(message, full_response) ==
    [user |-> message,
     bot |-> IF full_response = <<>> THEN <<>>
             ELSE <<full_response[Len(full_response)]>>]

\* The turn generate_response stores: {'user': message, 'bot': ''.join(full_response)}
recorded_turn(message, full_response) ==
    [user |-> message, bot |-> full_response]

\* A slip that stores the turn in a finally clause.
history_after_stream_finally(via, error, message, full_response) ==
    IF via = "chat_service"
    THEN Append(self_chat_history, recorded_turn(message, full_response))
    ELSE self_chat_history

\* self._chat_history behind the step that took the stop signal: the append
\* follows the loop inside the try, so it runs only when the loop ended
\* without an exception.
history_after_stream(via, error, message, full_response) ==
    IF via = "chat_service" /\ error = NoError
    THEN Append(self_chat_history, recorded_turn(message, full_response))
    ELSE self_chat_history

Gen(pc, via, query, out, error, context) ==
    [pc |-> pc, via |-> via, query |-> query, out |-> out, error |-> error,
     cause |-> NoError, context |-> context]

\* The call process_query(query): a generator function, so the call runs
\* none of the body and hands back a generator object.
ProcessQuery ==
    /\ Idle
    /\ \E query \in Texts :
         gen' = Gen("created", "process_query", query, <<>>, NoError, <<>>)
    /\ UNCHANGED <<config, timeDefined, dim, initialized, documents, embeddings,
                   index, ret, allNormal, worker, emitted, queue, win, chunked, prompted,
                   instance, self_chat_history, storage, upd, upload>>

\* The call ChatService.generate_response(message): a generator function
\* too, so nothing of process_query runs before the first next().
Messages == {t \in Texts : Len(t) <= MaxMessageLen}

ChatGenerate ==
    /\ Idle
    /\ Len(self_chat_history) < MaxTurns
    /\ \E message \in Messages :
         gen' = Gen("created", "chat_service", message, <<>>, NoError, <<>>)
    /\ UNCHANGED <<config, timeDefined, dim, initialized, documents, embeddings,
                   index, ret, allNormal, worker, emitted, queue, win, chunked, prompted,
                   instance, self_chat_history, storage, upd, upload>>

\* The call _generate_response_stream(prompt), made directly.
GenerateResponseStream ==
    /\ Idle
    /\ gen' = Gen("created", "direct", <<>>, <<>>, NoError, <<>>)
    /\ UNCHANGED <<config, timeDefined, dim, initialized, documents, embeddings,
                   index, ret, allNormal, worker, emitted, queue, win, chunked, prompted,
                   instance, self_chat_history, storage, upd, upload>>

\* A slip in which the first step keeps the query embedding among the
\* stored embeddings.
StartStoringQuery ==
    /\ gen.pc = "created"
    /\ \E encode_raises \in BOOLEAN, q \in Vecs(dim), setup_raises \in BOOLEAN :
         \E found \in search(index, q, config.top_k) :
           LET r == first_step(gen.via, gen.query, encode_raises, found, setup_raises)
           IN  /\ gen' = [gen EXCEPT !.pc = IF r.error = NoError THEN "streaming"
                                             ELSE "failed",
                                      !.error = r.error,
                                      !.cause = r.cause,
                                      !.context = r.context]
               /\ worker' = IF r.error = NoError THEN "running" ELSE worker
               /\ embeddings' = [none |-> FALSE, rows |-> embeddings.rows \o <<q>>]
    /\ UNCHANGED <<config, timeDefined, dim, initialized, documents,
                   index, ret, allNormal, emitted, queue, win, chunked, prompted,
                   instance, self_chat_history, storage, upd, upload>>

\* The first next() on the generator: the body runs to the loop over the
\* streamer, where the worker thread has been started, or raises.
Start ==
    /\ gen.pc = "created"
    /\ \E encode_raises \in BOOLEAN, q \in Vecs(dim), setup_raises \in BOOLEAN :
         \E found \in search(index, q, config.top_k) :
           LET r == first_step(gen.via, gen.query, encode_raises, found, setup_raises)
           IN  /\ gen' = [gen EXCEPT !.pc = IF r.error = NoError THEN "streaming"
                                             ELSE "failed",
                                      !.error = r.error,
                                      !.cause = r.cause,
                                      !.context = r.context]
               /\ worker' = IF r.error = NoError THEN "running" ELSE worker
    /\ UNCHANGED <<config, timeDefined, dim, initialized, documents, embeddings,
                   index, ret, allNormal, emitted, queue, win, chunked, prompted,
                   instance, self_chat_history, storage, upd, upload>>

\* The worker thread (self._llm.generate with the streamer): it puts a
\* fragment on the queue, which is unbounded, so it never waits.
WorkerPut ==
    /\ worker = "running"
    /\ Len(emitted) < MaxFrags
    /\ \E text \in Fragments :
         /\ queue' = Append(queue, Item(text))
         /\ emitted' = Append(emitted, text)
    /\ UNCHANGED <<config, timeDefined, dim, initialized, documents, embeddings,
                   index, ret, allNormal, gen, worker, win, chunked, prompted,
                   instance, self_chat_history, storage, upd, upload>>

\* Generation reaches its stop condition: streamer.end() puts the stop signal.
WorkerEnd ==
    /\ worker = "running"
    /\ queue' = Append(queue, StopSignal)
    /\ worker' = "done"
    /\ UNCHANGED <<config, timeDefined, dim, initialized, documents, embeddings,
                   index, ret, allNormal, gen, emitted, win, chunked, prompted,
                   instance, self_chat_history, storage, upd, upload>>

\* generate raises in the worker thread: the thread ends, nothing is put on
\* the queue and nothing reaches the thread that started it.
WorkerRaise ==
    /\ worker = "running"
    /\ worker' = "crashed"
    /\ UNCHANGED <<config, timeDefined, dim, initialized, documents, embeddings,
                   index, ret, allNormal, gen, emitted, queue, win, chunked, prompted,
                   instance, self_chat_history, storage, upd, upload>>

\* A slip that takes the newest item of the queue instead of the oldest.
PullNewest ==
    /\ gen.pc = "streaming"
    /\ queue # <<>>
    /\ queue' = SubSeq(queue, 1, Len(queue) - 1)
    /\ \E record_raises \in BOOLEAN :
         LET e == last_step(gen.via, record_raises)
         IN  IF queue[Len(queue)].stop
             THEN /\ gen' = [gen EXCEPT !.pc = IF e.error = NoError THEN "done"
                                               ELSE "failed",
                                        !.error = e.error,
                                        !.cause = e.cause]
                  /\ self_chat_history' =
                       history_after_stream(gen.via, e.error, gen.query, gen.out)
             ELSE /\ gen' = [gen EXCEPT !.out = Append(gen.out, queue[Len(queue)].text)]
                  /\ UNCHANGED self_chat_history
    /\ UNCHANGED <<config, timeDefined, dim, initialized, documents, embeddings,
                   index, ret, allNormal, worker, emitted, win, chunked, prompted,
                   instance, storage, upd, upload>>

\* The consumer's next(): `for text in streamer` takes the head of the queue
\* (queue.get() without a timeout waits while the queue is empty); a
\* fragment is yielded; the stop signal ends the loop, and the code behind
\* the loop runs: the statistics are recorded, and generate_response stores
\* the turn.
Pull ==
    /\ gen.pc = "streaming"
    /\ queue # <<>>
    /\ queue' = Tail(queue)
    /\ \E record_raises \in BOOLEAN :
         LET e == last_step(gen.via, record_raises)
         IN  IF queue[1].stop
             THEN /\ gen' = [gen EXCEPT !.pc = IF e.error = NoError THEN "done"
                                               ELSE "failed",
                                        !.error = e.error,
                                        !.cause = e.cause]
                  /\ self_chat_history' =
                       history_after_stream(gen.via, e.error, gen.query, gen.out)
             ELSE /\ gen' = [gen EXCEPT !.out = Append(gen.out, queue[1].text)]
                  /\ UNCHANGED self_chat_history
    /\ UNCHANGED <<config, timeDefined, dim, initialized, documents, embeddings,
                   index, ret, allNormal, worker, emitted, win, chunked, prompted,
                   instance, storage, upd, upload>>

\* A slip in which closing the generator stores what was received so far.
AbandonRecording ==
    /\ gen.pc = "streaming"
    /\ gen.out # <<>>
    /\ gen' = [gen EXCEPT !.pc = "abandoned"]
    /\ self_chat_history' =
         IF gen.via = "chat_service"
         THEN Append(self_chat_history, recorded_turn(gen.query, gen.out))
         ELSE self_chat_history
    /\ UNCHANGED <<config, timeDefined, dim, initialized, documents, embeddings,
                   index, ret, allNormal, worker, emitted, queue, win, chunked,
                   prompted, instance, storage, upd, upload>>

\* The consumer stops pulling: the generator, suspended at a yield, is
\* closed. GeneratorExit is no Exception, so no handler runs and the code
\* behind the loop is skipped; nothing tells the worker thread, which is
\* not joined and puts on an unbounded queue.
Abandon ==
    /\ gen.pc = "streaming"
    /\ gen.out # <<>>
    /\ gen' = [gen EXCEPT !.pc = "abandoned"]
    /\ UNCHANGED <<config, timeDefined, dim, initialized, documents, embeddings,
                   index, ret, allNormal, worker, emitted, queue, win, chunked,
                   prompted, instance, self_chat_history, storage, upd,
                   upload>>

\* The caller lets go of the finished call's result or generator.
Release ==
    /\ (ret.op # "none" \/ gen.pc # "none")
    /\ \/ gen.pc \in {"none", "done", "failed"}
       \/ gen.pc = "abandoned" /\ worker # "running"
    /\ ret' = NoRet
    /\ gen' = NoGen
    /\ worker' = "idle"
    /\ emitted' = <<>>
    /\ queue' = <<>>
    /\ UNCHANGED <<config, timeDefined, dim, initialized, documents, embeddings,
                   index, allNormal, win, chunked, prompted, instance,
                   self_chat_history, storage, upd, upload>>

\* A direct call _select_context_window(relevant_chunks, max_tokens).
Results == [chunk : Texts, dist : 0..MaxDist]
ResultLists == UNION {[1..n -> Results] : n \in 0..MaxWindow}
MArgs == {NotGiven} \cup {[given |-> TRUE, n |-> n] : n \in 0..MaxTokens}

SelectContextWindow ==
    /\ ~win.called
    /\ \E results \in ResultLists, marg \in MArgs :
         win' = [called |-> TRUE, results |-> results, max_tokens |-> marg,
                 context |-> select_context_window(results, marg)]
    /\ UNCHANGED <<config, timeDefined, dim, initialized, documents, embeddings,
                   index, ret, allNormal, gen, worker, emitted, queue, chunked,
                   prompted, instance, self_chat_history, storage, upd,
                   upload>>

\* A direct call _chunk_text(text) under the deployment's configuration.
ChunkTexts == UNION {[1..n -> Chars] : n \in 0..MaxChunkTextLen}

ChunkConfigs ==
    {[chunk_size |-> c, chunk_overlap |-> o, top_k |-> 3, max_context_tokens |-> 4] :
        c \in 1..MaxChunkSize, o \in 0..MaxChunkSize}

ChunkText ==
    /\ ~chunked.called
    /\ \E text \in ChunkTexts :
         chunked' = [called |-> TRUE, text |-> text,
                     error |-> chunk_text(text, config).error,
                     chunks |-> chunk_text(text, config).chunks]
    /\ UNCHANGED <<config, timeDefined, dim, initialized, documents, embeddings,
                   index, ret, allNormal, gen, worker, emitted, queue, win, prompted,
                   instance, self_chat_history, storage, upd, upload>>

\* A direct call _format_prompt(query, context_window, chat_history).
Queries == {"q1", "q2"}
ContextWindows == {"", "ctx"}
Turns == [user : {"u1", "u2"}, bot : {"b1", "b2"}]
Histories ==
    {[none |-> TRUE, turns |-> <<>>]}
    \cup {[none |-> FALSE, turns |-> t] : t \in UNION {[1..n -> Turns] : n \in 0..MaxHistory}}

FormatPrompt ==
    /\ ~prompted.called
    /\ \E query \in Queries, context_window \in ContextWindows, chat_history \in Histories :
         prompted' = [called |-> TRUE, query |-> query,
                      context_window |-> context_window,
                      chat_history |-> chat_history,
                      prompt |-> format_prompt(query, context_window, chat_history)]
    /\ UNCHANGED <<config, timeDefined, dim, initialized, documents, embeddings,
                   index, ret, allNormal, gen, worker, emitted, queue, win, chunked,
                   instance, self_chat_history, storage, upd, upload>>

\* ------------------------------------- update_context beside a retrieval
\* No update_context call is under way.
NoUpd == [pc |-> "none", error |-> NoError, first |-> FALSE, chunks |-> <<>>,
          rows |-> <<>>]

\* update_context(docs) up to the embedding of the chunks: it raises,
\* returns at once for no chunks, or holds the chunks and their rows.
UpdateBegin ==
    /\ instance = "held"
    /\ upd.pc = "none"
    /\ \E docs \in DocLists :
         LET ac == AllChunks(docs, config)
             n == Len(ac.chunks)
             over(pc, e) == upd' = [NoUpd EXCEPT !.pc = pc, !.error = e]
         IN  /\ Len(documents) + n <= MaxChunks
             /\ \E encode_raises \in BOOLEAN, rows \in [1..n -> Vecs(dim)] :
                  IF ~timeDefined
                  THEN over("raised", NameErrorTime)
                  ELSE IF ~initialized
                  THEN over("raised", UpdateError(Error("RAGModelError",
                                                        <<"RAG model not initialized">>)))
                  ELSE IF ac.error # NoError
                  THEN over("raised", UpdateError(ac.error))
                  ELSE IF ac.chunks = <<>>
                  THEN over("returned", NoError)
                  ELSE IF encode_raises
                  THEN over("raised", UpdateError(EncodeFailed))
                  ELSE upd' = [pc |-> "encoded", error |-> NoError,
                               first |-> embeddings.none,
                               chunks |-> ac.chunks, rows |-> rows]
    /\ UNCHANGED <<config, timeDefined, dim, initialized, documents, embeddings,
                   index, ret, allNormal, gen, worker, emitted, queue, win, chunked,
                   prompted, instance, self_chat_history, storage, upload>>

\* self._embeddings = embeddings, or np.vstack([self._embeddings, embeddings])
UpdateWriteEmbeddings ==
    /\ upd.pc = "encoded"
    /\ embeddings' = [none |-> FALSE, rows |-> embeddings.rows \o upd.rows]
    /\ upd' = [upd EXCEPT !.pc = "embeddings written"]
    /\ UNCHANGED <<config, timeDefined, dim, initialized, documents,
                   index, ret, allNormal, gen, worker, emitted, queue, win, chunked,
                   prompted, instance, self_chat_history, storage, upload>>

\* self._documents = all_chunks, or self._documents.extend(all_chunks)
UpdateWriteDocuments ==
    /\ upd.pc = "embeddings written"
    /\ documents' = IF upd.first THEN upd.chunks ELSE documents \o upd.chunks
    /\ upd' = [upd EXCEPT !.pc = "documents written"]
    /\ UNCHANGED <<config, timeDefined, dim, initialized, embeddings,
                   index, ret, allNormal, gen, worker, emitted, queue, win, chunked,
                   prompted, instance, self_chat_history, storage, upload>>

\* self._index.add(embeddings): it appends the rows, or raises and adds
\* nothing; then the call returns, or raises the wrapped error.
UpdateIndexAdd ==
    /\ upd.pc = "documents written"
    /\ \E add_raises \in BOOLEAN :
         IF add_raises
         THEN /\ index' = index
              /\ upd' = [upd EXCEPT !.pc = "raised", !.error = UpdateError(AddFailed)]
              /\ allNormal' = FALSE
         ELSE /\ index' = index \o upd.rows
              /\ upd' = [upd EXCEPT !.pc = "returned"]
              /\ allNormal' = allNormal
    /\ UNCHANGED <<config, timeDefined, dim, initialized, documents, embeddings,
                   ret, gen, worker, emitted, queue, win, chunked,
                   prompted, instance, self_chat_history, storage, upload>>

\* The caller of update_context lets go of the finished call.
UpdateOver ==
    /\ upd.pc \in {"returned", "raised"}
    /\ upd' = NoUpd
    /\ UNCHANGED <<config, timeDefined, dim, initialized, documents, embeddings,
                   index, ret, allNormal, gen, worker, emitted, queue, win, chunked,
                   prompted, instance, self_chat_history, storage, upload>>

\* _get_relevant_chunks in another thread, up to the answer of the index:
\* the test of the store, the query embedding and the search.
RetrieveSearch ==
    /\ instance = "held"
    /\ ret.op = "none"
    /\ \E karg \in KArgs, encode_raises \in BOOLEAN, q \in Vecs(dim) :
         \E found \in search(index, q, EffectiveK(karg)) :
           LET r == get_relevant_chunks(encode_raises, found)
           IN  ret' = IF r.error = NoError /\ r.found # <<>>
                      THEN Ret("searched", NoError, <<>>, found, karg.given, karg.k)
                      ELSE Ret("get_relevant_chunks", r.error, r.pairs, r.found,
                               karg.given, karg.k)
    /\ UNCHANGED <<config, timeDefined, dim, initialized, documents, embeddings,
                   index, allNormal, gen, worker, emitted, queue, win, chunked,
                   prompted, instance, self_chat_history, storage, upd,
                   upload>>

\* The loop over the answer of the index, which reads the chunk list as it
\* is by then.
RetrieveCollect ==
    /\ ret.op = "searched"
    /\ ret' = [ret EXCEPT !.op = "get_relevant_chunks",
                          !.pairs = Collect(ret.found, documents)]
    /\ UNCHANGED <<config, timeDefined, dim, initialized, documents, embeddings,
                   index, allNormal, gen, worker, emitted, queue, win, chunked,
                   prompted, instance, self_chat_history, storage, upd,
                   upload>>

\* The caller of the retrieval lets go of its result.
RetrieveOver ==
    /\ ret.op = "get_relevant_chunks"
    /\ ret' = NoRet
    /\ UNCHANGED <<config, timeDefined, dim, initialized, documents, embeddings,
                   index, allNormal, gen, worker, emitted, queue, win, chunked,
                   prompted, instance, self_chat_history, storage, upd,
                   upload>>

\* ------------------------------------------------------------ file storage
\* Config.MAX_FILE_AGE = 3600 seconds; the clock counts hours.
MAX_FILE_AGE == 1

Files == {"f.pdf", "g.pdf"}

\* The registry holds the upload hour of a file, -1 for a file it does not hold.
Unregistered == -1

NoCleanup == [pc |-> "none", current_time |-> 0, pending |-> <<>>]

\* StorageManager(): an empty registry and a free lock, over an empty
\* upload folder.
FreshStorage ==
    [registry |-> [f \in Files |-> Unregistered],
     disk |-> {},
     lock |-> "free",
     now |-> 0,
     cleanup |-> NoCleanup]

\* list(self._file_registry.items()): the registered files, in a fixed order.
RegistryItems(registry) ==
    (IF registry["f.pdf"] # Unregistered THEN <<"f.pdf">> ELSE <<>>)
    \o (IF registry["g.pdf"] # Unregistered THEN <<"g.pdf">> ELSE <<>>)

\* An hour passes.
Tick ==
    /\ storage.now < MaxClock
    /\ storage' = [storage EXCEPT !.now = storage.now + 1]
    /\ UNCHANGED <<config, timeDefined, dim, initialized, documents, embeddings,
                   index, ret, allNormal, gen, worker, emitted, queue, win, chunked,
                   prompted, instance, self_chat_history, upd, upload>>

\* StorageManager.store_file in a request: under the lock the file is saved
\* and registered with the time of the call; a failing save is logged.
StoreFile ==
    /\ storage.lock = "free"
    /\ \E filename \in Files, save_raises \in BOOLEAN :
         storage' = IF save_raises THEN storage
                    ELSE [storage EXCEPT !.disk = storage.disk \cup {filename},
                                         !.registry[filename] = storage.now]
    /\ UNCHANGED <<config, timeDefined, dim, initialized, documents, embeddings,
                   index, ret, allNormal, gen, worker, emitted, queue, win, chunked,
                   prompted, instance, self_chat_history, upd, upload>>

\* StorageManager.delete_file in a request: under the lock a file that is in
\* the folder is removed and dropped from the registry; a failing removal
\* is logged.
DeleteFile ==
    /\ storage.lock = "free"
    /\ \E filename \in Files, remove_raises \in BOOLEAN :
         storage' = IF filename \in storage.disk /\ ~remove_raises
                    THEN [storage EXCEPT !.disk = storage.disk \ {filename},
                                         !.registry[filename] = Unregistered]
                    ELSE storage
    /\ UNCHANGED <<config, timeDefined, dim, initialized, documents, embeddings,
                   index, ret, allNormal, gen, worker, emitted, queue, win, chunked,
                   prompted, instance, self_chat_history, upd, upload>>

\* One round of the loop of _cleanup_old_files, which runs under self._lock:
\* a file older than MAX_FILE_AGE is handed to delete_file, whose first
\* statement is `with self._lock`; threading.Lock is not reentrant, so the
\* thread waits for the lock it holds. The end of the loop releases the lock.
cleanup_step(st) ==
    LET c == st.cleanup
        f == c.pending[1]
    IN  IF c.pending = <<>>
        THEN [st EXCEPT !.lock = "free", !.cleanup.pc = "returned"]
        ELSE IF c.current_time - st.registry[f] > MAX_FILE_AGE
        THEN [st EXCEPT !.cleanup.pc = "blocked"]
        ELSE [st EXCEPT !.cleanup.pending = Tail(c.pending)]

\* The call _cleanup_old_files(): it reads the clock and current_app.config,
\* which raises RuntimeError in a thread without application context, then
\* takes the lock and lists the registry.
CleanupBegin ==
    /\ storage.cleanup.pc = "none"
    /\ storage.lock = "free"
    /\ \E app_context \in BOOLEAN :
         storage' = IF ~app_context
                    THEN [storage EXCEPT !.cleanup.pc = "raised"]
                    ELSE [storage EXCEPT
                            !.lock = "cleanup",
                            !.cleanup = [pc |-> "scanning",
                                         current_time |-> storage.now,
                                         pending |-> RegistryItems(storage.registry)]]
    /\ UNCHANGED <<config, timeDefined, dim, initialized, documents, embeddings,
                   index, ret, allNormal, gen, worker, emitted, queue, win, chunked,
                   prompted, instance, self_chat_history, upd, upload>>

CleanupStep ==
    /\ storage.cleanup.pc = "scanning"
    /\ storage' = cleanup_step(storage)
    /\ UNCHANGED <<config, timeDefined, dim, initialized, documents, embeddings,
                   index, ret, allNormal, gen, worker, emitted, queue, win, chunked,
                   prompted, instance, self_chat_history, upd, upload>>

\* The call is over; _cleanup_task sleeps and calls again.
CleanupAgain ==
    /\ storage.cleanup.pc \in {"returned", "raised"}
    /\ storage' = [storage EXCEPT !.cleanup = NoCleanup]
    /\ UNCHANGED <<config, timeDefined, dim, initialized, documents, embeddings,
                   index, ret, allNormal, gen, worker, emitted, queue, win, chunked,
                   prompted, instance, self_chat_history, upd, upload>>

\* ------------------------------------------------------------- upload_pdf
\* The file names a request may carry; secure_filename drops the path in
\* front of a name, and the names of Files pass it unchanged.
FileNames == Files \cup {"../f.pdf", "notes.txt", ""}

secure_filename(filename) == IF filename = "../f.pdf" THEN "f.pdf" ELSE filename

\* '.' in filename and filename.rsplit('.', 1)[1].lower() in ALLOWED_EXTENSIONS
allowed_file(filename) == filename \in {"f.pdf", "g.pdf", "../f.pdf"}

Requests ==
    {[has_file |-> FALSE, filename |-> ""]}
    \cup {[has_file |-> TRUE, filename |-> n] : n \in FileNames}

\* What file.save does: it writes the file, or raises having written
\* nothing, or raises having written a part.
SaveOutcomes == {"saved", "raised", "raised, part written"}

\* No upload is under way.
NoUpload == [status |-> 0, filename |-> "", saved |-> FALSE, cleanup |-> "none",
             disk |-> {}]

Response(status, filename, saved, cleanup, disk) ==
    [status |-> status, filename |-> filename, saved |-> saved, cleanup |-> cleanup,
     disk |-> disk]

\* A slip that leaves the saved file where it is when the processing fails.
upload_pdf_no_cleanup(disk, request, too_large, save, process_raises, remove_raises) ==
    LET filename == secure_filename(request.filename)
        written == IF save = "raised" THEN disk ELSE disk \cup {filename}
    IN  IF ~request.has_file \/ request.filename = "" \/ ~allowed_file(request.filename)
        THEN Response(400, "", FALSE, "none", disk)
        ELSE IF too_large
        THEN Response(413, "", FALSE, "none", disk)
        ELSE IF filename \in disk
        THEN Response(409, filename, FALSE, "none", disk)
        ELSE IF save = "saved" /\ ~process_raises
        THEN Response(200, filename, TRUE, "none", written)
        ELSE Response(500, filename, TRUE, "none", written)

\* upload_pdf for one request: the status of the response, the name the
\* file was stored under, whether file.save ran, what became of the clean-up
\* and the upload folder afterwards.  The requests without a usable file are
\* turned away before the try; inside it the size and the duplicate name
\* are tested, the file is saved and processed; when the save or the
\* processing raises, a file found under the name is removed, and a removal
\* that raises is logged.
upload_pdf(disk, request, too_large, save, process_raises, remove_raises) ==
    LET filename == secure_filename(request.filename)
        written == IF save = "raised" THEN disk ELSE disk \cup {filename}
    IN  IF ~request.has_file \/ request.filename = "" \/ ~allowed_file(request.filename)
        THEN Response(400, "", FALSE, "none", disk)
        ELSE IF too_large
        THEN Response(413, "", FALSE, "none", disk)
        ELSE IF filename \in disk
        THEN Response(409, filename, FALSE, "none", disk)
        ELSE IF save = "saved" /\ ~process_raises
        THEN Response(200, filename, TRUE, "none", written)
        ELSE IF filename \notin written
        THEN Response(500, filename, TRUE, "none", written)
        ELSE IF remove_raises
        THEN Response(500, filename, TRUE, "failed", written)
        ELSE Response(500, filename, TRUE, "removed", written \ {filename})

\* A request POST /upload is handled.
UploadPdf ==
    /\ upload.status = 0
    /\ storage.lock = "free"
    /\ \E request \in Requests, too_large \in BOOLEAN, save \in SaveOutcomes,
          process_raises \in BOOLEAN, remove_raises \in BOOLEAN :
         LET r == upload_pdf(storage.disk, request, too_large, save, process_raises,
                             remove_raises)
         IN  /\ upload' = r
             /\ storage' = [storage EXCEPT !.disk = r.disk]
    /\ UNCHANGED <<config, timeDefined, dim, initialized, documents, embeddings,
                   index, ret, allNormal, gen, worker, emitted, queue, win, chunked,
                   prompted, instance, self_chat_history, upd>>

\* The response has been sent.
UploadOver ==
    /\ upload.status # 0
    /\ upload' = NoUpload
    /\ UNCHANGED <<config, timeDefined, dim, initialized, documents, embeddings,
                   index, ret, allNormal, gen, worker, emitted, queue, win, chunked,
                   prompted, instance, self_chat_history, storage, upd>>

\* ------------------------------------------------------------ specification
\* The state after RAGModel(): _initialize_model has set _initialized, the
\* chunk list is empty, no embeddings are stored and the index is empty.
Init ==
    /\ config \in Configs
    /\ timeDefined \in BOOLEAN
    /\ dim \in 1..MaxDim
    /\ initialized = TRUE
    /\ documents = <<>>
    /\ embeddings = NoEmbeddings
    /\ index = <<>>
    /\ ret = NoRet
    /\ allNormal = TRUE
    /\ gen = NoGen
    /\ worker = "idle"
    /\ emitted = <<>>
    /\ queue = <<>>
    /\ win = NoWin
    /\ chunked = NoChunked
    /\ prompted = NoPrompted
    /\ instance = "held"
    /\ self_chat_history = <<>>
    /\ storage = FreshStorage
    /\ upd = NoUpd
    /\ upload = NoUpload

Next ==
    \/ UpdateContext
    \/ GetRelevantChunks
    \/ ProcessQuery
    \/ Start
    \/ WorkerPut
    \/ WorkerEnd
    \/ WorkerRaise
    \/ Pull
    \/ Release

Spec == Init /\ [][Next]_vars

\* The streaming generator called directly on a fresh RAGModel.
NextStream ==
    \/ GenerateResponseStream
    \/ Start
    \/ WorkerPut
    \/ WorkerEnd
    \/ WorkerRaise
    \/ Pull
    \/ Release

SpecStream == Init /\ [][NextStream]_vars

\* A chat session: the documents are indexed before the first message, then
\* the ChatService answers messages on the RAGModel it holds.
IndexOnce ==
    /\ documents = <<>>
    /\ self_chat_history = <<>>
    /\ UpdateContext

NextChat ==
    \/ IndexOnce
    \/ ChatGenerate
    \/ Start
    \/ WorkerPut
    \/ WorkerEnd
    \/ WorkerRaise
    \/ Pull
    \/ Abandon
    \/ Release

SpecChat == Init /\ [][NextChat]_vars

\* The StorageManager of one deployment: requests store and delete files
\* while the clock runs and _cleanup_old_files is called again and again.
InitStorage == Init /\ timeDefined /\ dim = 1 /\ config.chunk_overlap < config.chunk_size

NextStorage ==
    \/ Tick
    \/ StoreFile
    \/ DeleteFile
    \/ CleanupBegin
    \/ CleanupStep
    \/ CleanupAgain

SpecStorage == InitStorage /\ [][NextStorage]_vars

\* The upload endpoint over the folder it shares with the StorageManager.
NextUpload ==
    \/ UploadPdf
    \/ UploadOver
    \/ StoreFile
    \/ DeleteFile
    \/ Tick

SpecUpload == InitStorage /\ [][NextUpload]_vars

\* One thread updates the context step by step while another retrieves.
NextInterleaved ==
    \/ UpdateBegin
    \/ UpdateWriteEmbeddings
    \/ UpdateWriteDocuments
    \/ UpdateIndexAdd
    \/ UpdateOver
    \/ RetrieveSearch
    \/ RetrieveCollect
    \/ RetrieveOver

SpecInterleaved == Init /\ [][NextInterleaved]_vars

\* The context assembler called directly: of the state it reads only the
\* configured max_context_tokens, the same in every deployment of Configs.
InitWindow == Init /\ timeDefined /\ dim = 1 /\ config.chunk_overlap < config.chunk_size

NextWindow == SelectContextWindow

SpecWindow == InitWindow /\ [][NextWindow]_vars

\* The pipeline from before the construction of the RAGModel.
InitConstruct ==
    /\ config \in Configs
    /\ timeDefined \in BOOLEAN
    /\ dim \in 1..MaxDim
    /\ initialized = FALSE
    /\ documents = <<>>
    /\ embeddings = NoEmbeddings
    /\ index = <<>>
    /\ ret = NoRet
    /\ allNormal = TRUE
    /\ gen = NoGen
    /\ worker = "idle"
    /\ emitted = <<>>
    /\ queue = <<>>
    /\ win = NoWin
    /\ chunked = NoChunked
    /\ prompted = NoPrompted
    /\ instance = "none"
    /\ self_chat_history = <<>>
    /\ storage = FreshStorage
    /\ upd = NoUpd
    /\ upload = NoUpload

NextConstruct ==
    \/ Construct
    \/ Next

SpecConstruct == InitConstruct /\ [][NextConstruct]_vars

\* The chunker called directly, under every pair of CHUNK_SIZE and
\* CHUNK_OVERLAP up to MaxChunkSize.
InitChunk ==
    /\ config \in ChunkConfigs
    /\ timeDefined = TRUE
    /\ dim = 1
    /\ initialized = TRUE
    /\ documents = <<>>
    /\ embeddings = NoEmbeddings
    /\ index = <<>>
    /\ ret = NoRet
    /\ allNormal = TRUE
    /\ gen = NoGen
    /\ worker = "idle"
    /\ emitted = <<>>
    /\ queue = <<>>
    /\ win = NoWin
    /\ chunked = NoChunked
    /\ prompted = NoPrompted
    /\ instance = "held"
    /\ self_chat_history = <<>>
    /\ storage = FreshStorage
    /\ upd = NoUpd
    /\ upload = NoUpload

NextChunk == ChunkText

SpecChunk == InitChunk /\ [][NextChunk]_vars

\* The prompt builder called directly: it reads no state of the model.
InitPrompt == Init /\ timeDefined /\ dim = 1 /\ config.chunk_overlap < config.chunk_size

NextPrompt == FormatPrompt

SpecPrompt == InitPrompt /\ [][NextPrompt]_vars

\* ================================================================== claims
\* The texts of the fragments waiting on the queue, in order.
RECURSIVE QueueTexts(_)
QueueTexts(q) ==
    IF q = <<>> THEN <<>>
    ELSE (IF q[1].stop THEN <<>> ELSE <<q[1].text>>) \o QueueTexts(Tail(q))

\* A process_query generator whose first step has run.
Queried == gen.via = "process_query" /\ gen.pc # "created"

\* C1: as long as every update_context call has returned normally (no-op
\* calls included), the chunk list, the index and the stored embeddings
\* hold the same number of entries.
C1_ChunksMatchIndex ==
    allNormal =>
        /\ Len(documents) = Len(index)
        /\ Len(documents) = Len(embeddings.rows)

\* Two chunks have been indexed by calls that all returned normally.
C1_Witness ==
    /\ allNormal
    /\ ret.op = "update_context" /\ ret.error = NoError
    /\ Len(documents) = 2 /\ Len(index) = 2

C4_BlankQueryRejected ==
    (Queried /\ Strip(gen.query) = <<>>)
    => /\ gen.pc = "failed"
       /\ gen.error = Error("RAGModelError", <<"Empty query provided">>)
       /\ gen.out = <<>>

\* A whitespace-only query on a model that holds no chunk has been rejected.
C4_Witness ==
    /\ Queried /\ gen.pc = "failed"
    /\ gen.query # <<>> /\ Strip(gen.query) = <<>>
    /\ documents = <<>> /\ index = <<>>

\* C5: a process_query with a non-blank query on a model that holds no
\* chunk fails with the no-context error and yields nothing.
C5_NoContextRejected ==
    (Queried /\ Strip(gen.query) # <<>> /\ documents = <<>>)
    => /\ gen.pc = "failed"
       /\ gen.error = Error("RAGModelError", <<"No context documents available">>)
       /\ gen.out = <<>>

\* A non-blank query on a model that holds no chunk has been rejected.
C5_Witness ==
    /\ Queried /\ gen.pc = "failed"
    /\ Strip(gen.query) # <<>>
    /\ documents = <<>> /\ embeddings.none

\* C6: while the worker has not raised, the fragments the consumer has
\* received followed by those waiting are exactly those the worker emitted,
\* in order; the sequence ends only after the worker stopped and every
\* fragment was received; and once the worker has stopped the consumer can
\* always take the next item, the stop signal being the last.
C6_StreamInOrder ==
    (gen.pc \in {"streaming", "done"} /\ worker \in {"running", "done"})
    => /\ gen.out \o QueueTexts(queue) = emitted
       /\ gen.pc = "done" => (worker = "done" /\ gen.out = emitted /\ queue = <<>>)
       /\ (worker = "done" /\ gen.pc = "streaming")
            => (queue # <<>> /\ queue[Len(queue)].stop)

\* The consumer has received three fragments, not all alike, and the end.
C6_Witness ==
    /\ gen.via = "direct" /\ gen.pc = "done"
    /\ Len(gen.out) = 3 /\ gen.out[1] # gen.out[2]

C8_WithinBudget ==
    (win.called /\ win.max_tokens.given)
    => WordCount(win.context) <= win.max_tokens.n

C11_ValidationAtCall ==
    (gen.via = "process_query" /\ gen.pc = "created")
    => validation(gen.query) = NoError

\* The smallest q with q * d >= n, for d >= 1 and n >= 0.
CeilDiv(n, d) == (n + d - 1) \div d

Max(a, b) == IF a > b THEN a ELSE b

\* The chunker ran under a configuration with 0 <= chunk_overlap < chunk_size.
ChunkedProperly == chunked.called /\ config.chunk_overlap < config.chunk_size

\* C12: for a text of n >= 1 words and 0 <= o < c, _chunk_text returns
\* max(1, ceil(max(n - o, 0) / (c - o))) chunks.
C12_ChunkCount ==
    (ChunkedProperly /\ WordCount(chunked.text) >= 1)
    => Len(chunked.chunks) =
         Max(1, CeilDiv(Max(WordCount(chunked.text) - config.chunk_overlap, 0),
                        config.chunk_size - config.chunk_overlap))

\* The words of seq from position n + 1 on (none when it has n or fewer).
Drop(seq, n) == SubSeq(seq, n + 1, Len(seq))

\* The first chunk's words, then every later chunk's words without its
\* first chunk_overlap ones.
RECURSIVE Rebuild(_, _, _)
Rebuild(chunks, i, overlap) ==
    IF i > Len(chunks) THEN <<>>
    ELSE (IF i = 1 THEN Split(chunks[i]) ELSE Drop(Split(chunks[i]), overlap))
         \o Rebuild(chunks, i + 1, overlap)

\* C13: for 0 <= o < c, the first chunk followed by every later chunk
\* without its first o words is the word sequence of the text.
C13_OverlapRemovedRebuilds ==
    ChunkedProperly
    => /\ chunked.error = NoError
       /\ Rebuild(chunked.chunks, 1, config.chunk_overlap) = Split(chunked.text)

\* A text of words that are not all alike was cut into three or more
\* overlapping chunks.
C13_Witness ==
    /\ ChunkedProperly
    /\ config.chunk_overlap >= 1
    /\ Len(chunked.chunks) >= 3
    /\ \E i, j \in 1..WordCount(chunked.text) :
         Split(chunked.text)[i] # Split(chunked.text)[j]

\* C14: for 0 <= o < c and a text of at least one word, every chunk has
\* between one and c words, and every chunk but the last has exactly c.
C14_OnlyLastShorter ==
    (ChunkedProperly /\ WordCount(chunked.text) >= 1)
    => \A i \in 1..Len(chunked.chunks) :
         /\ WordCount(chunked.chunks[i]) >= 1
         /\ WordCount(chunked.chunks[i]) <= config.chunk_size
         /\ i < Len(chunked.chunks) => WordCount(chunked.chunks[i]) = config.chunk_size

Budget == IF win.max_tokens.given THEN win.max_tokens.n ELSE config.max_context_tokens

\* The positions of results by ascending distance, equal distances in input
\* order (there is exactly one such arrangement).
StableOrder(results) ==
    CHOOSE p \in [1..Len(results) -> 1..Len(results)] :
        \A i, j \in 1..Len(results) :
            i < j => \/ results[p[i]].dist < results[p[j]].dist
                     \/ /\ results[p[i]].dist = results[p[j]].dist
                        /\ p[i] < p[j]

\* The chunks of results in that order.
Ordered(results) ==
    [i \in 1..Len(results) |-> results[StableOrder(results)[i]].chunk]

\* The words of the first m chunks together.
RECURSIVE WordsOf(_, _)
WordsOf(chunks, m) ==
    IF m = 0 THEN 0 ELSE WordCount(chunks[m]) + WordsOf(chunks, m - 1)

\* C16: when the words of all results together are within max_tokens, the
\* context is all the chunks joined by single spaces, by ascending
\* distance, equal distances in input order.
C16_AllIncludedInOrder ==
    (win.called /\ WordsOf(Ordered(win.results), Len(win.results)) <= Budget)
    => win.context = Join(Ordered(win.results))

\* Two results with different chunks of words, the farther one first, were
\* passed with a max_tokens that holds both.
C16_Witness ==
    /\ win.called /\ win.max_tokens.given
    /\ Len(win.results) = 2
    /\ win.results[1].dist > win.results[2].dist
    /\ win.results[1].chunk # win.results[2].chunk
    /\ WordCount(win.results[1].chunk) >= 1 /\ WordCount(win.results[2].chunk) >= 1
    /\ WordsOf(Ordered(win.results), 2) <= Budget
    /\ win.context # <<>>

\* The length of the longest prefix of the ordered chunks whose words
\* together are within the budget.
FittingPrefix(chunks, budget) ==
    CHOOSE m \in 0..Len(chunks) :
        /\ WordsOf(chunks, m) <= budget
        /\ \A n \in (m + 1)..Len(chunks) : WordsOf(chunks, n) > budget

\* C17: the context is the longest prefix of the results, ordered by
\* distance, whose words together are within max_tokens, whole chunks only.
C17_LongestPrefix ==
    win.called
    => win.context =
         Join(SubSeq(Ordered(win.results), 1,
                     FittingPrefix(Ordered(win.results), Budget)))

\* The turns of the history a direct _format_prompt call was given (none
\* for an absent history).
Given == prompted.chat_history.turns

\* The number of turns the prompt is to render.
Rendered == Min(3, Len(Given))

\* C18: the prompt is the preamble, the context verbatim, the last
\* min(3, len(history)) turns in their order, each as a Human line and an
\* Assistant line, then the query as a Human line and an open Assistant
\* marker; older turns do not appear.
C18_PromptLayout ==
    prompted.called
    => /\ Len(prompted.prompt) = 3 + 5 * Rendered + 3
       /\ prompted.prompt[1] = Preamble
       /\ prompted.prompt[2] = prompted.context_window
       /\ prompted.prompt[3] = HistoryHeader
       /\ \A j \in 1..Rendered :
            LET turn == Given[Len(Given) - Rendered + j]
                at == 3 + 5 * (j - 1)
            IN  /\ prompted.prompt[at + 1] = "Human: "
                /\ prompted.prompt[at + 2] = turn.user
                /\ prompted.prompt[at + 3] = "\nAssistant: "
                /\ prompted.prompt[at + 4] = turn.bot
                /\ prompted.prompt[at + 5] = "\n"
       /\ prompted.prompt[3 + 5 * Rendered + 1] = "\nHuman: "
       /\ prompted.prompt[3 + 5 * Rendered + 2] = prompted.query
       /\ prompted.prompt[3 + 5 * Rendered + 3] = "\nAssistant: "

\* A history of four turns was passed whose oldest turn has a user line
\* that none of the other three has, and those three are not all alike.
C18_Witness ==
    /\ prompted.called
    /\ Len(Given) = 4
    /\ \A i \in 2..4 : Given[i].user # Given[1].user
    /\ Given[2] # Given[4]
    /\ prompted.context_window # ""

RECURSIVE ChunksInOrder(_)
ChunksInOrder(docs) ==
    IF docs = <<>> THEN <<>>
    ELSE ChunksInOrder(SubSeq(docs, 1, Len(docs) - 1))
         \o chunk_text(docs[Len(docs)], config).chunks

IsPrefix(a, b) == Len(a) <= Len(b) /\ SubSeq(b, 1, Len(a)) = a

\* C20: every step leaves the old chunk list a prefix of the new one and
\* the index no smaller, and an update_context that changes the chunk list
\* appends the chunks of its documents, document by document.
C20_AppendOnly ==
    [][/\ IsPrefix(documents, documents')
       /\ Len(index') >= Len(index)
       /\ documents' # documents
            => /\ ret'.op = "update_context"
               /\ documents' = documents \o ChunksInOrder(ret'.docs)]_vars

\* An update_context has appended one chunk behind a different one that an
\* earlier call had stored.
C20_Witness ==
    /\ ret.op = "update_context" /\ ret.error = NoError
    /\ Len(documents) = 2 /\ Len(index) = 2
    /\ Len(ChunksInOrder(ret.docs)) = 1
    /\ documents[1] # documents[2]

\* C21: under a configuration with chunk_overlap < chunk_size, an
\* update_context whose documents produce no chunk returns normally and
\* leaves the chunk list, the stored embeddings and the index as they were.
C21_NoChunksNoOp ==
    [][(/\ ret.op = "none" /\ ret'.op = "update_context"
        /\ config.chunk_overlap < config.chunk_size
        /\ ChunksInOrder(ret'.docs) = <<>>)
       => /\ ret'.error = NoError
          /\ UNCHANGED <<documents, embeddings, index>>]_vars

\* C22: a caller holds a RAGModel only if it is initialized, a RAGModel
\* starts with an empty chunk list, no embeddings and an empty index, and
\* while there is no initialized RAGModel no call has completed or begun and
\* the chunk list, the embeddings and the index are untouched.
C22_HeldMeansInitialized ==
    /\ instance = "held" => initialized
    /\ (instance = "held" /\ allNormal /\ ret.op = "none" /\ embeddings.none)
         => (documents = <<>> /\ index = <<>>)
    /\ ~initialized
         => /\ instance # "held"
            /\ documents = <<>> /\ embeddings = NoEmbeddings /\ index = <<>>
            /\ ret = NoRet /\ gen = NoGen

\* A construction has failed: the constructor raised and the caller holds
\* no RAGModel.
C22_Witness == instance = "raised" /\ ~initialized


\* C23: a step changes the chat history only by ending a generate_response
\* whose stream was drained, and that step appends one turn made of the
\* message and of all fragments the stream carried, which are the fragments
\* the consumer received, in order.
C23_TurnAfterDrain ==
    [][/\ (gen.via = "chat_service" /\ gen.pc = "streaming" /\ gen'.pc = "done")
            => /\ gen'.out = emitted
               /\ queue' = <<>>
               /\ self_chat_history' =
                    Append(self_chat_history, [user |-> gen.query, bot |-> emitted])
       /\ self_chat_history' # self_chat_history
            => (gen.via = "chat_service" /\ gen.pc = "streaming" /\ gen'.pc = "done")
       /\ (gen'.via = "chat_service" /\ gen'.pc = "streaming")
            => IsPrefix(gen'.out, emitted')]_vars

\* Two drained calls have left two turns with different answers, the first
\* of several fragments that are not all alike.
C23_Witness ==
    /\ Len(self_chat_history) = 2
    /\ Len(self_chat_history[1].bot) >= 2
    /\ self_chat_history[1].bot[1] # self_chat_history[1].bot[2]
    /\ self_chat_history[1].bot # self_chat_history[2].bot

\* C24: the step on which a generate_response fails raises a RAGModelError,
\* and no step of a generate_response that does not end it normally changes
\* the chat history.
C24_FailureKeepsHistory ==
    [][/\ (gen'.via = "chat_service" /\ gen.pc # "failed" /\ gen'.pc = "failed")
            => /\ gen'.error.type = "RAGModelError"
               /\ self_chat_history' = self_chat_history
       /\ (gen'.via = "chat_service" /\ gen'.pc # "done")
            => self_chat_history' = self_chat_history]_vars

\* A generate_response has failed behind fragments it had yielded, in a
\* session that had recorded a turn before.
C24_Witness ==
    /\ gen.via = "chat_service" /\ gen.pc = "failed"
    /\ gen.out # <<>>
    /\ Len(self_chat_history) = 1

IsSuffix(a, b) == Len(a) <= Len(b) /\ SubSeq(b, Len(b) - Len(a) + 1, Len(b)) = a

\* C25: an error update_context reports begins with the name of the update
\* and goes on with a cause; a generator that failed by re-raising a caught
\* error as a RAGModelError reports a text that ends with the message of the
\* caught error.
C25_ErrorsCarryCause ==
    /\ (ret.op = "update_context" /\ ret.error # NoError)
         => /\ ret.error.type = "RAGModelError"
            /\ Len(ret.error.message) >= 2
            /\ ret.error.message[1] = "Error updating context: "
    /\ (gen.pc = "failed" /\ gen.error # gen.cause)
         => /\ gen.error.type = "RAGModelError"
            /\ gen.cause.message # <<>>
            /\ IsSuffix(gen.cause.message, gen.error.message)

C27_CleanupRemovesAndReturns ==
    /\ storage.cleanup.pc # "blocked"
    /\ storage.cleanup.pc = "returned"
         => /\ storage.lock = "free"
            /\ \A f \in Files :
                 storage.registry[f] # Unregistered
                   => storage.cleanup.current_time - storage.registry[f] <= MAX_FILE_AGE


C30_FailedUploadLeavesFolder ==
    [][(upload.status = 0 /\ upload'.status # 0)
         => /\ upload'.status = 200
                 => storage'.disk = storage.disk \cup {upload'.filename}
            /\ upload'.status # 200 => storage'.disk = storage.disk
            /\ upload'.status = 409
                 => (upload'.filename \in storage.disk /\ ~upload'.saved)]_vars

\* C30: an upload that succeeds adds its file; a failing upload leaves the
\* folder as it was unless the removal of the file it saved failed itself,
\* and then that file is all it adds; a request turned away for a duplicate
\* name has saved nothing.
C30_FailedUploadCleansUp ==
    [][(upload.status = 0 /\ upload'.status # 0)
         => /\ upload'.status = 200
                 => storage'.disk = storage.disk \cup {upload'.filename}
            /\ (upload'.status # 200 /\ upload'.cleanup # "failed")
                 => storage'.disk = storage.disk
            /\ (upload'.status # 200 /\ upload'.cleanup = "failed")
                 => storage'.disk = storage.disk \cup {upload'.filename}
            /\ upload'.status = 409
                 => (upload'.filename \in storage.disk /\ ~upload'.saved)]_vars

\* An upload whose processing failed has removed the file it had saved
\* beside another file, which is still there.
C30_Witness ==
    /\ upload.status = 500 /\ upload.cleanup = "removed"
    /\ upload.filename = "f.pdf"
    /\ storage.disk = {"g.pdf"}

====
